---- MODULE Spec2Model ----
(***************************************************************************)
(* A model of gevlib: the Gumbel, Frechet, Weibull and GEV distributions   *)
(* (src/dist/*.rs), their debug-only domain checks and their seeded random *)
(* generation.                                                             *)
(*                                                                         *)
(* Numbers.  An f64 is NaN, +Inf, -Inf, -0.0 or a finite value.  A finite  *)
(* value is kept symbolically as                                           *)
(*        a + c * e^q * exp(-m * e^r)        (a, c, q, m, r rational)      *)
(* which is closed under every step the four distributions take on the     *)
(* inputs drawn below: a rational x gives exp(-y) = e^(-y) and a cdf value *)
(* exp(-e^(-y)); a probability exp(-e^k) gives -log p = e^k and a quantile *)
(* loc + scale * e^q.  Parameters and inputs are dyadic rationals, on      *)
(* which f64 arithmetic is exact.  Finite arithmetic is exact except for   *)
(* the one rounding that decides a guard of the code: a sum a + c*e^q      *)
(* whose second term is below half an ulp of a rounds to a (FRound).       *)
(* A value outside the algebra is Off; no action produces one (Tracked).   *)
(***************************************************************************)
EXTENDS Integers, Sequences, FiniteSets, TLC

VARIABLES debug, halted, inst, last, ref

vars == <<debug, halted, inst, last, ref>>

----------------------------------------------------------------------------
(* Rationals <<n, d>> in lowest terms, d > 0.                              *)

Abs(n) == IF n < 0 THEN -n ELSE n

RECURSIVE Gcd(_, _)
Gcd(a, b) == IF b = 0 THEN a ELSE Gcd(b, a % b)

Q(n, d) ==
    LET s == IF d < 0 THEN -1 ELSE 1
        g == Gcd(Abs(n), Abs(d))
    IN  <<(s * n) \div g, (s * d) \div g>>

QI(n) == <<n, 1>>
Q0 == <<0, 1>>
Q1 == <<1, 1>>
QAdd(x, y) == Q(x[1] * y[2] + y[1] * x[2], x[2] * y[2])
QNeg(x) == <<-x[1], x[2]>>
QSub(x, y) == QAdd(x, QNeg(y))
QMul(x, y) == Q(x[1] * y[1], x[2] * y[2])
QDiv(x, y) == Q(x[1] * y[2], x[2] * y[1])
QSign(x) == IF x[1] > 0 THEN 1 ELSE IF x[1] < 0 THEN -1 ELSE 0
QAbs(x) == <<Abs(x[1]), x[2]>>
QLe(x, y) == x[1] * y[2] <= y[1] * x[2]
QIsInt(x) == x[2] = 1
QIsOdd(x) == x[2] = 1 /\ x[1] % 2 = 1

RECURSIVE IPow(_, _)
IPow(b, n) == IF n = 0 THEN 1 ELSE b * IPow(b, n - 1)

\* x^n for a rational x # 0 and an integer n
QPowInt(x, n) ==
    IF n >= 0 THEN Q(IPow(x[1], n), IPow(x[2], n))
    ELSE Q(IPow(x[2], -n), IPow(x[1], -n))

----------------------------------------------------------------------------
(* f64 values.                                                             *)

NaN == [k |-> "nan"]
PInf == [k |-> "pinf"]
NInf == [k |-> "ninf"]
NZero == [k |-> "nzero"]
Off == [k |-> "off"]

\* a + c * e^q * exp(-m * e^r), in normal form: a zero term is dropped,
\* exp(-m e^0) is e^(-m), and e^0 is 1
Fin(a, c, q, m, r) ==
    LET q2 == IF r = Q0 THEN QSub(q, m) ELSE q
        m2 == IF r = Q0 THEN Q0 ELSE m
    IN  IF c = Q0
        THEN [k |-> "fin", a |-> a, c |-> Q0, q |-> Q0, m |-> Q0, r |-> Q0]
        ELSE IF q2 = Q0 /\ m2 = Q0
        THEN [k |-> "fin", a |-> QAdd(a, c), c |-> Q0, q |-> Q0, m |-> Q0, r |-> Q0]
        ELSE [k |-> "fin", a |-> a, c |-> c, q |-> q2, m |-> m2,
              r |-> IF m2 = Q0 THEN Q0 ELSE r]

R(n, d) == Fin(Q(n, d), Q0, Q0, Q0, Q0)
Zero == R(0, 1)
One == R(1, 1)
\* e^q, and the probability exp(-e^k)
EPow(q) == Fin(Q0, Q1, q, Q0, Q0)
PGrid(k) == Fin(Q0, Q1, Q0, Q1, QI(k))

IsFin(v) == v.k = "fin"
IsRat(v) == v.k = "fin" /\ v.c = Q0
IsTerm(v) == v.k = "fin" /\ v.a = Q0 /\ v.c # Q0
IsZero(v) == v.k = "nzero" \/ (IsRat(v) /\ v.a = Q0)
IsInf(v) == v.k \in {"pinf", "ninf"}

\* e^q * exp(-m e^r) < 1, > 1
TermSmall(v) == QSign(v.q) <= 0 /\ QSign(v.m) >= 0
TermBig(v) == QSign(v.q) >= 0 /\ QSign(v.m) <= 0

\* the sign of a value that is not NaN: -1, 0, 1; 2 when the algebra cannot tell
Sign(v) ==
    CASE v.k = "pinf" -> 1
      [] v.k = "ninf" -> -1
      [] v.k = "nzero" -> 0
      [] v.k = "fin" ->
            LET sa == QSign(v.a)
                sc == QSign(v.c)
            IN  IF sc = 0 THEN sa
                ELSE IF sa = 0 \/ sa = sc THEN sc
                ELSE IF QLe(QAbs(v.c), QAbs(v.a)) /\ TermSmall(v) THEN sa
                ELSE IF QLe(QAbs(v.a), QAbs(v.c)) /\ TermBig(v) THEN sc
                ELSE 2
      [] OTHER -> 2

\* the sign bit of a value that is not NaN (a zero has one too)
Negative(v) == v.k = "nzero" \/ Sign(v) = -1

AbsorbExp == 39

\* round to nearest: a term below half an ulp of the rational part is lost
\* (2 e^-39 < 2^-54, so |c| e^q < |a| 2^-54 <= ulp(a)/2 when |c| <= 2|a|)
FRound(v) ==
    IF IsFin(v) /\ v.c # Q0 /\ v.a # Q0 /\ v.m = Q0
       /\ QLe(v.q, QI(-AbsorbExp))
       /\ QLe(QAbs(v.c), QMul(QI(2), QAbs(v.a)))
    THEN Fin(v.a, Q0, Q0, Q0, Q0)
    ELSE v

FNeg(v) ==
    CASE v.k = "nan" -> NaN
      [] v.k = "pinf" -> NInf
      [] v.k = "ninf" -> PInf
      [] v.k = "nzero" -> Zero
      [] v.k = "off" -> Off
      [] v.k = "fin" ->
            IF v = Zero THEN NZero
            ELSE Fin(QNeg(v.a), QNeg(v.c), v.q, v.m, v.r)

FAdd(u, v) ==
    CASE u.k = "nan" \/ v.k = "nan" -> NaN
      [] u.k = "off" \/ v.k = "off" -> Off
      [] IsInf(u) /\ IsInf(v) -> IF u = v THEN u ELSE NaN
      [] IsInf(u) -> u
      [] IsInf(v) -> v
      [] u.k = "nzero" -> v
      [] v.k = "nzero" -> u
      [] OTHER ->
            IF u.c = Q0 THEN FRound(Fin(QAdd(u.a, v.a), v.c, v.q, v.m, v.r))
            ELSE IF v.c = Q0 THEN FRound(Fin(QAdd(u.a, v.a), u.c, u.q, u.m, u.r))
            ELSE IF u.q = v.q /\ u.m = v.m /\ u.r = v.r
                 THEN FRound(Fin(QAdd(u.a, v.a), QAdd(u.c, v.c), u.q, u.m, u.r))
            ELSE Off

FSub(u, v) == FAdd(u, FNeg(v))

\* a zero of the sign the two operands give
SignedZero(u, v) == IF Negative(u) # Negative(v) THEN NZero ELSE Zero
SignedInf(u, v) == IF Negative(u) # Negative(v) THEN NInf ELSE PInf

FMul(u, v) ==
    CASE u.k = "nan" \/ v.k = "nan" -> NaN
      [] u.k = "off" \/ v.k = "off" -> Off
      [] IsInf(u) \/ IsInf(v) ->
            IF IsZero(u) \/ IsZero(v) THEN NaN
            ELSE IF Sign(u) = 2 \/ Sign(v) = 2 THEN Off
            ELSE SignedInf(u, v)
      [] IsZero(u) \/ IsZero(v) ->
            IF Sign(u) = 2 \/ Sign(v) = 2 THEN Off ELSE SignedZero(u, v)
      [] IsRat(u) -> Fin(QMul(u.a, v.a), QMul(u.a, v.c), v.q, v.m, v.r)
      [] IsRat(v) -> Fin(QMul(u.a, v.a), QMul(u.c, v.a), u.q, u.m, u.r)
      [] IsTerm(u) /\ IsTerm(v) /\ (u.m = Q0 \/ v.m = Q0 \/ u.r = v.r) ->
            Fin(Q0, QMul(u.c, v.c), QAdd(u.q, v.q), QAdd(u.m, v.m),
                IF u.m = Q0 THEN v.r ELSE u.r)
      [] OTHER -> Off

FDiv(u, v) ==
    CASE u.k = "nan" \/ v.k = "nan" -> NaN
      [] u.k = "off" \/ v.k = "off" -> Off
      [] IsInf(u) ->
            IF IsInf(v) THEN NaN
            ELSE IF Sign(v) = 2 THEN Off
            ELSE SignedInf(u, v)
      [] IsInf(v) -> IF Sign(u) = 2 THEN Off ELSE SignedZero(u, v)
      [] IsZero(v) ->
            IF IsZero(u) THEN NaN
            ELSE IF Sign(u) = 2 THEN Off
            ELSE SignedInf(u, v)
      [] IsZero(u) -> IF Sign(v) = 2 THEN Off ELSE SignedZero(u, v)
      [] IsRat(v) -> Fin(QDiv(u.a, v.a), QDiv(u.c, v.a), u.q, u.m, u.r)
      [] IsTerm(v) /\ IsTerm(u) /\ (u.m = Q0 \/ v.m = Q0 \/ u.r = v.r) ->
            Fin(Q0, QDiv(u.c, v.c), QSub(u.q, v.q), QSub(u.m, v.m),
                IF u.m = Q0 THEN v.r ELSE u.r)
      [] IsTerm(v) /\ IsRat(u) ->
            Fin(Q0, QDiv(u.a, v.c), QNeg(v.q), QNeg(v.m), v.r)
      [] OTHER -> Off

\* IEEE comparisons: false as soon as one side is NaN
FGt(u, v) ==
    /\ u.k # "nan" /\ v.k # "nan"
    /\ IF IsInf(u) \/ IsInf(v) THEN u # v /\ (u = PInf \/ v = NInf)
       ELSE Sign(FSub(u, v)) = 1
FLt(u, v) == FGt(v, u)
FGe(u, v) ==
    /\ u.k # "nan" /\ v.k # "nan"
    /\ IF IsInf(u) \/ IsInf(v) THEN u = v \/ u = PInf \/ v = NInf
       ELSE Sign(FSub(u, v)) \in {0, 1}
FLe(u, v) == FGe(v, u)
FEq(u, v) ==
    /\ u.k # "nan" /\ v.k # "nan"
    /\ IF IsInf(u) \/ IsInf(v) THEN u = v ELSE Sign(FSub(u, v)) = 0

\* whether a comparison of the two is one the algebra decides
Comparable(u, v) ==
    u.k # "off" /\ v.k # "off"
    /\ (u.k = "nan" \/ v.k = "nan" \/ IsInf(u) \/ IsInf(v) \/ Sign(FSub(u, v)) # 2)

FAbs(v) == IF v.k \in {"nan", "off"} THEN v ELSE IF Negative(v) THEN FNeg(v) ELSE v

----------------------------------------------------------------------------
(* libm::exp, libm::log, libm::pow on the algebra.                         *)

Exp(v) ==
    CASE v.k = "nan" -> NaN
      [] v.k = "off" -> Off
      [] v.k = "pinf" -> PInf
      [] v.k = "ninf" -> Zero
      [] IsZero(v) -> One
      [] IsRat(v) -> EPow(v.a)
      [] IsTerm(v) /\ v.m = Q0 -> Fin(Q0, Q1, Q0, QNeg(v.c), v.q)
      [] OTHER -> Off

Log(v) ==
    CASE v.k = "nan" -> NaN
      [] v.k = "off" -> Off
      [] v.k = "pinf" -> PInf
      [] v.k = "ninf" -> NaN
      [] IsZero(v) -> NInf
      [] Sign(v) = -1 -> NaN
      [] v = One -> Zero
      [] IsTerm(v) /\ v.c = Q1 -> Fin(v.q, QNeg(v.m), v.r, Q0, Q0)
      [] OTHER -> Off

\* the rational powers the algebra computes: base n/d with |n|, d <= MaxPowBase
\* and an integer exponent up to MaxPowExp; others are Off
MaxPowBase == 2
MaxPowExp == 8

\* pow(b, e) with the special cases of C99 Annex F, which libm follows
Pow(b, e) ==
    CASE b.k = "off" \/ e.k = "off" -> Off
      [] IsZero(e) -> One
      [] b = One -> One
      [] b.k = "nan" \/ e.k = "nan" -> NaN
      [] IsInf(e) ->
            LET cmp == IF IsInf(b) THEN 1 ELSE Sign(FSub(FAbs(b), One))
            IN  IF cmp = 2 THEN Off
                ELSE IF cmp = 0 THEN One
                ELSE IF (cmp = 1) = (e = PInf) THEN PInf
                ELSE Zero
      [] ~IsRat(e) -> Off
      [] IsZero(b) ->
            IF QSign(e.a) < 0
            THEN (IF b.k = "nzero" /\ QIsOdd(e.a) THEN NInf ELSE PInf)
            ELSE (IF b.k = "nzero" /\ QIsOdd(e.a) THEN NZero ELSE Zero)
      [] b.k = "pinf" -> IF QSign(e.a) < 0 THEN Zero ELSE PInf
      [] b.k = "ninf" ->
            IF QSign(e.a) < 0
            THEN (IF QIsOdd(e.a) THEN NZero ELSE Zero)
            ELSE (IF QIsOdd(e.a) THEN NInf ELSE PInf)
      [] IsRat(b) /\ QIsInt(e.a) /\ Abs(e.a[1]) <= MaxPowExp
         /\ Abs(b.a[1]) <= MaxPowBase /\ b.a[2] <= MaxPowBase ->
            Fin(QPowInt(b.a, e.a[1]), Q0, Q0, Q0, Q0)
      [] IsTerm(b) /\ (b.c = Q1 \/ (b.c = QNeg(Q1) /\ QIsInt(e.a))) ->
            Fin(Q0, IF b.c = Q1 \/ ~QIsOdd(e.a) THEN Q1 ELSE QNeg(Q1),
                QMul(b.q, e.a), QMul(b.m, e.a), b.r)
      [] Sign(b) = -1 /\ ~QIsInt(e.a) -> NaN
      [] OTHER -> Off

----------------------------------------------------------------------------
(* The distributions.  A call returns a value or halts on a failed         *)
(* debug assertion.                                                        *)

None == [k |-> "none"]
Ret(v) == [out |-> "ret", val |-> v]
Halt == [out |-> "halt", val |-> None]

\* the check as assert! would make it: made in every build
domain_assert(requirement) == requirement

\* domain!(requirement) is debug_assert!(requirement): checked in a debug
\* build only
domain(requirement) == ~debug \/ requirement

Gumbel_new(loc, scale) ==
    IF domain(FGt(scale, Zero))
    THEN Ret([kind |-> "Gumbel", loc |-> loc, scale |-> scale])
    ELSE Halt

\* the constructor with GEV's check: the shape is not looked at
Frechet_new_scale_only(loc, scale, shape) ==
    IF domain(FGt(scale, Zero))
    THEN Ret([kind |-> "Frechet", loc |-> loc, scale |-> scale, shape |-> shape])
    ELSE Halt

Frechet_new(loc, scale, shape) ==
    IF domain(FGt(scale, Zero) /\ FGt(shape, Zero))
    THEN Ret([kind |-> "Frechet", loc |-> loc, scale |-> scale, shape |-> shape])
    ELSE Halt

Weibull_new(loc, scale, shape) ==
    IF domain(FGt(scale, Zero) /\ FGt(shape, Zero))
    THEN Ret([kind |-> "Weibull", loc |-> loc, scale |-> scale, shape |-> shape])
    ELSE Halt

GEV_new(loc, scale, shape) ==
    IF domain(FGt(scale, Zero))
    THEN Ret([kind |-> "GEV", loc |-> loc, scale |-> scale, shape |-> shape])
    ELSE Halt

\* (x - self.loc) / self.scale
Standardize(self, x) == FDiv(FSub(x, self.loc), self.scale)

Gumbel_cdf(self, x) ==
    LET y == Standardize(self, x)
    IN  Ret(Exp(FNeg(Exp(FNeg(y)))))

Gumbel_pdf(self, x) ==
    LET y == Standardize(self, x)
        constant == FDiv(One, self.scale)
    IN  Ret(FMul(FMul(constant, Exp(FNeg(y))), Exp(FNeg(Exp(FNeg(y))))))

\* the requirement with the endpoints left out: x > 0.0 && x < 1.0
QuantileDomain_open(x) == FGt(x, Zero) /\ FLt(x, One)

\* the requirement of every quantile: x >= 0.0 && x <= 1.0
QuantileDomain(x) == FGe(x, Zero) /\ FLe(x, One)

Gumbel_quantile(self, x) ==
    IF domain(QuantileDomain(x))
    THEN Ret(FSub(self.loc, FMul(self.scale, Log(FNeg(Log(x))))))
    ELSE Halt

\* the support with its boundary let in: x >= self.loc
Frechet_support_closed(self, x) == FGe(x, self.loc)

Frechet_support(self, x) == FGt(x, self.loc)

Frechet_cdf(self, x) ==
    IF domain(Frechet_support(self, x))
    THEN LET y == Standardize(self, x)
         IN  Ret(Exp(FNeg(Pow(y, FNeg(self.shape)))))
    ELSE Halt

Frechet_pdf(self, x) ==
    IF domain(Frechet_support(self, x))
    THEN LET y == Standardize(self, x)
             pow_const == FDiv(self.shape, self.scale)
         IN  Ret(FMul(FMul(pow_const, Pow(y, FSub(FNeg(One), self.shape))),
                      Exp(FNeg(Pow(y, FNeg(self.shape))))))
    ELSE Halt

Frechet_quantile(self, x) ==
    IF domain(QuantileDomain(x))
    THEN Ret(FAdd(self.loc,
                  FMul(self.scale,
                       Pow(FNeg(Log(x)), FDiv(FNeg(One), self.shape)))))
    ELSE Halt

Weibull_support(self, x) ==
    FLt(x, self.loc) /\ FGt(self.scale, Zero) /\ FGt(self.shape, Zero)

Weibull_cdf(self, x) ==
    IF domain(Weibull_support(self, x))
    THEN LET y == Standardize(self, x)
         IN  Ret(Exp(FNeg(Pow(FNeg(y), self.shape))))
    ELSE Halt

Weibull_pdf(self, x) ==
    IF domain(Weibull_support(self, x))
    THEN LET y == Standardize(self, x)
             pow_const == FDiv(self.shape, self.scale)
         IN  Ret(FMul(FMul(pow_const, Pow(FNeg(y), FSub(self.shape, One))),
                      Exp(FNeg(Pow(FNeg(y), self.shape)))))
    ELSE Halt

Weibull_quantile(self, x) ==
    IF domain(QuantileDomain(x))
    THEN Ret(FSub(self.loc,
                  FMul(self.scale, Pow(FNeg(Log(x)), FDiv(One, self.shape)))))
    ELSE Halt

\* self.shape == 0.0
ShapeIsZero(self) == FEq(self.shape, Zero)

GEV_t_func(self, x) ==
    LET y == Standardize(self, x)
    IN  IF ShapeIsZero(self)
        THEN Exp(FNeg(y))
        ELSE Pow(FAdd(One, FMul(self.shape, y)), FDiv(FNeg(One), self.shape))

\* 1.0 + self.shape * ((x - self.loc) / self.scale)
GEV_affine(self, x) == FAdd(One, FMul(self.shape, Standardize(self, x)))

GEV_support(self, x) ==
    FGt(GEV_affine(self, x), Zero) /\ FGt(self.scale, Zero)

GEV_cdf(self, x) ==
    IF domain(GEV_support(self, x))
    THEN LET t_val == GEV_t_func(self, x)
         IN  Ret(Exp(FNeg(t_val)))
    ELSE Halt

GEV_pdf(self, x) ==
    IF domain(GEV_support(self, x))
    THEN LET mult_const == FDiv(One, self.scale)
             t_val == GEV_t_func(self, x)
         IN  Ret(FMul(FMul(mult_const, Pow(t_val, FAdd(self.shape, One))),
                      Exp(FNeg(t_val))))
    ELSE Halt

GEV_quantile(self, x) ==
    IF domain(QuantileDomain(x))
    THEN IF ShapeIsZero(self)
         THEN Ret(FAdd(FMul(FNeg(self.scale), Log(FNeg(Log(x)))), self.loc))
         ELSE LET mult_const == FDiv(self.scale, self.shape)
              IN  Ret(FAdd(FSub(FMul(mult_const,
                                     Pow(FNeg(Log(x)), FNeg(self.shape))),
                                mult_const),
                           self.loc))
    ELSE Halt

\* the DistQuant trait: dispatch on the implementing type
cdf(self, x) ==
    CASE self.kind = "Gumbel" -> Gumbel_cdf(self, x)
      [] self.kind = "Frechet" -> Frechet_cdf(self, x)
      [] self.kind = "Weibull" -> Weibull_cdf(self, x)
      [] self.kind = "GEV" -> GEV_cdf(self, x)

pdf(self, x) ==
    CASE self.kind = "Gumbel" -> Gumbel_pdf(self, x)
      [] self.kind = "Frechet" -> Frechet_pdf(self, x)
      [] self.kind = "Weibull" -> Weibull_pdf(self, x)
      [] self.kind = "GEV" -> GEV_pdf(self, x)

quantile(self, x) ==
    CASE self.kind = "Gumbel" -> Gumbel_quantile(self, x)
      [] self.kind = "Frechet" -> Frechet_quantile(self, x)
      [] self.kind = "Weibull" -> Weibull_quantile(self, x)
      [] self.kind = "GEV" -> GEV_quantile(self, x)

----------------------------------------------------------------------------
(* RandomSeed and the generator.  ChaCha8Rng is a deterministic function   *)
(* of its seed: the generator is a key and a position in the key's stream, *)
(* and gen::<f64>() yields the stream's next value, which lies in [0, 1).  *)

MaxSeed == 2
KMax == 5

Empty == [tag |-> "Empty"]
Seed(val) == [tag |-> "Seed", val |-> val]
NoSeed == [tag |-> "none"]

\* the values gen::<f64>() takes here: 0 and both ends of the grid
Uniforms == <<Zero, PGrid(KMax), PGrid(-KMax)>>

seed_from_u64(val) == [key |-> val, pos |-> 0]
from_entropy(e) == [key |-> e, pos |-> 0]
gen(rng) == Uniforms[((rng.key + rng.pos) % Len(Uniforms)) + 1]

\* both arms seeded from entropy
MatchSeed_entropy(seed, e) == from_entropy(e)

\* let mut rng = match seed { Empty => from_entropy(), Seed(val) => seed_from_u64(val) }
MatchSeed(seed, e) ==
    IF seed.tag = "Seed" THEN seed_from_u64(seed.val) ELSE from_entropy(e)

\* a draw from [-1, 1): 2u - 1
rand_quant_signed(seed, e) ==
    LET g == gen(MatchSeed(seed, e)) IN FSub(FAdd(g, g), One)

\* the uniform draw of one random call
rand_quant(seed, e) == gen(MatchSeed(seed, e))

random(self, seed, e) == quantile(self, rand_quant(seed, e))

----------------------------------------------------------------------------
(* The program: a build profile, one instance obtained through new or a    *)
(* struct literal, copies of it, and calls on either.                      *)

Kinds == {"Gumbel", "Frechet", "Weibull", "GEV"}
\* the structs whose fields are pub
PubKinds == {"Gumbel", "Frechet", "Weibull"}

LocSet == {R(0, 1), R(1, 1)}
ScaleSet == {R(-1, 1), Zero, R(2, 1), NaN}
ShapeSet == {R(-1, 1), Zero, R(1, 8), R(8, 1)}
ShapesOf(kind) == IF kind = "Gumbel" THEN {None} ELSE ShapeSet
XSet == {R(0, 1), R(1, 1), R(2, 1), PInf, NaN}
\* probabilities: inside [0, 1] (exp(-e^k) lies in (0, 1)), and outside it
\* (-1/2, exp(e) > 1, NaN)
PInside == {Zero, One, PGrid(KMax), PGrid(-KMax)}
POutside == {R(-1, 2), FDiv(One, PGrid(1)), NaN}
PSet == PInside \cup POutside
Seeds == {Empty} \cup {Seed(v) : v \in 0..MaxSeed}

Literal(kind, loc, scale, shape) ==
    IF kind = "Gumbel" THEN [kind |-> kind, loc |-> loc, scale |-> scale]
    ELSE [kind |-> kind, loc |-> loc, scale |-> scale, shape |-> shape]

new(kind, loc, scale, shape) ==
    CASE kind = "Gumbel" -> Gumbel_new(loc, scale)
      [] kind = "Frechet" -> Frechet_new(loc, scale, shape)
      [] kind = "Weibull" -> Weibull_new(loc, scale, shape)
      [] kind = "GEV" -> GEV_new(loc, scale, shape)

NoCall ==
    [op |-> "none", self |-> None, arg |-> None, seed |-> NoSeed, u |-> None,
     out |-> "none", val |-> None]

Call(op, self, arg, seed, u, res) ==
    [op |-> op, self |-> self, arg |-> arg, seed |-> seed, u |-> u,
     out |-> res.out, val |-> res.val]

\* the values a caller passes as x: the inputs, and the quantile it just got
XArgs == XSet \cup (IF last.op \in {"quantile", "random"} /\ last.out = "ret"
                    THEN {last.val} ELSE {})

\* the call stays inside the algebra: its guard is decided, its value tracked
Tracked(self, op, x, res) ==
    /\ res.val.k # "off"
    /\ CASE op = "quantile" -> Comparable(x, Zero) /\ Comparable(x, One)
         [] self.kind = "GEV" -> Comparable(GEV_affine(self, x), Zero)
         [] self.kind = "Gumbel" -> TRUE
         [] OTHER -> Comparable(x, self.loc)

\* the instances the caller holds: the one constructed, and a copy just made
Held == ({inst} \ {None}) \cup (IF last.op = "copy" THEN {last.val} ELSE {})

\* a call that writes the receiver's scale
AfterCall_rescaled(self) == [self EXCEPT !.scale = One]

\* every operation takes &self: the receiver is as it was
AfterCall(self) == self

Init ==
    /\ debug \in BOOLEAN
    /\ halted = FALSE
    /\ inst = None
    /\ last = NoCall
    /\ ref = NoCall

\* the call is made; the caller may keep what the call before it returned
Finish(c, pin) ==
    /\ last' = c
    /\ ref' = IF pin THEN last ELSE ref
    /\ halted' = (last'.out = "halt")
    /\ inst' = AfterCall(inst)
    /\ UNCHANGED debug

New(locs, scales, shapes) ==
    \E kind \in Kinds, loc \in locs, scale \in scales :
      \E shape \in ShapesOf(kind) \cap ({None} \cup shapes) :
        LET res == new(kind, loc, scale, shape)
        IN  /\ ~halted /\ inst = None
            /\ last' = Call("new", Literal(kind, loc, scale, shape), None,
                            NoSeed, None, [out |-> res.out, val |-> None])
            /\ inst' = IF res.out = "ret" THEN res.val ELSE None
            /\ halted' = (res.out = "halt")
            /\ UNCHANGED <<debug, ref>>

\* Gumbel {loc: 0.5, scale: 2.0}: a struct literal, as in examples/one.rs
StructLiteral(locs, scales, shapes) ==
    \E kind \in PubKinds, loc \in locs, scale \in scales :
      \E shape \in ShapesOf(kind) \cap ({None} \cup shapes) :
        /\ ~halted /\ inst = None
        /\ inst' = Literal(kind, loc, scale, shape)
        /\ last' = Call("literal", inst', None, NoSeed, None,
                        [out |-> "ret", val |-> None])
        /\ UNCHANGED <<debug, halted, ref>>

\* #[derive(Clone, Copy)]: let copy = *self
Copy ==
    /\ ~halted /\ inst # None
    /\ last' = Call("copy", inst, None, NoSeed, None, Ret(inst))
    /\ UNCHANGED <<debug, halted, inst, ref>>

Cdf(pins) ==
    \E self \in Held, x \in XArgs, pin \in pins :
      \E res \in {cdf(self, x)} :
        /\ ~halted /\ Tracked(self, "cdf", x, res)
        /\ Finish(Call("cdf", self, x, NoSeed, None, res), pin)

Pdf(pins) ==
    \E self \in Held, x \in XArgs, pin \in pins :
      \E res \in {pdf(self, x)} :
        /\ ~halted /\ Tracked(self, "pdf", x, res)
        /\ Finish(Call("pdf", self, x, NoSeed, None, res), pin)

Quantile(pins) ==
    \E self \in Held, x \in PSet, pin \in pins :
      \E res \in {quantile(self, x)} :
        /\ ~halted /\ Tracked(self, "quantile", x, res)
        /\ Finish(Call("quantile", self, x, NoSeed, None, res), pin)

Random(pins) ==
    \E self \in Held, seed \in Seeds, e \in 0..MaxSeed, pin \in pins :
      \E u \in {rand_quant(seed, e)}, res \in {random(self, seed, e)} :
        /\ ~halted /\ Tracked(self, "quantile", u, res)
        /\ Finish(Call("random", self, None, seed, u, res), pin)

\* every parameter set, one call remembered (last)
Next ==
    \/ New(LocSet, ScaleSet, ShapeSet)
    \/ StructLiteral(LocSet, ScaleSet, ShapeSet)
    \/ Copy
    \/ Cdf({FALSE})
    \/ Pdf({FALSE})
    \/ Quantile({FALSE})
    \/ Random({FALSE})

Spec == Init /\ [][Next]_vars

\* fewer parameter sets, and any earlier call kept beside the last one (ref)
PairLocs == {R(1, 1)}
PairScales == {R(2, 1)}
PairShapes == {Zero, R(8, 1)}

NextPair ==
    \/ New(PairLocs, PairScales, PairShapes)
    \/ StructLiteral(PairLocs, PairScales, PairShapes)
    \/ Copy
    \/ Cdf(BOOLEAN)
    \/ Pdf(BOOLEAN)
    \/ Quantile(BOOLEAN)
    \/ Random(BOOLEAN)

SpecPair == Init /\ [][NextPair]_vars

----------------------------------------------------------------------------
(* Properties.                                                             *)

Calls == {"cdf", "pdf", "quantile", "random"}
\* the probabilities strictly between 0 and 1
POpen == PInside \ {Zero, One}

\* a parameter is a positive number
Positive(v) == IsRat(v) /\ QSign(v.a) > 0

\* the documented parameter invariant of an instance
ParamsValid(p) ==
    /\ Positive(p.scale)
    /\ p.kind \in {"Frechet", "Weibull"} => Positive(p.shape)

\* a rational x outside the support, by the support's definition (the GEV
\* condition 1 + shape*(x - loc)/scale > 0 multiplied through by scale > 0)
OutsideSupport(self, x) ==
    IF self.kind = "Gumbel" \/ ~IsRat(x) THEN FALSE
    ELSE IF self.kind = "Frechet" THEN QLe(x.a, self.loc.a)
    ELSE IF self.kind = "Weibull" THEN QLe(self.loc.a, x.a)
    ELSE /\ Positive(self.scale)
         /\ QLe(QAdd(self.scale.a,
                     QMul(self.shape.a, QSub(x.a, self.loc.a))), Q0)

\* C1: in a debug build new halts exactly when scale is not positive (zero,
\* negative, NaN) or, for Frechet and Weibull, shape is not positive; GEV takes
\* any shape; with valid parameters new returns an instance holding exactly
\* the values given.
C1_NewValidates ==
    (debug /\ last.op = "new") =>
        IF ParamsValid(last.self)
        THEN ~halted /\ last.out = "ret" /\ inst = last.self
        ELSE halted /\ last.out = "halt" /\ inst = None

\* C1: a debug build has refused a Frechet whose scale is positive and whose
\* shape is zero.
C1_Witness ==
    /\ debug /\ last.op = "new" /\ last.self.kind = "Frechet"
    /\ Positive(last.self.scale) /\ last.self.shape = Zero
    /\ halted

\* C2: two random calls with RandomSeed::Seed(v) of the same v on the same
\* parameters draw the same uniform and return the same value, whatever was
\* called between them.
C2_SeedReproducible ==
    ( /\ ref.op = "random" /\ last.op = "random"
      /\ ref.seed.tag = "Seed" /\ last.seed = ref.seed
      /\ last.self = ref.self )
    => (last.u = ref.u /\ last.out = ref.out /\ last.val = ref.val)

\* C2: an earlier and a later random call with Seed(1) on the same instance
\* have both returned.
C2_Witness ==
    /\ ref.op = "random" /\ last.op = "random"
    /\ ref.seed = Seed(1) /\ last.seed = Seed(1)
    /\ last.self = ref.self
    /\ ref.out = "ret" /\ last.out = "ret"

\* C3: in a debug build quantile(p) halts exactly when p < 0, p > 1 or p is
\* NaN, and returns for every p in [0, 1], 0 and 1 included, on all four
\* distributions.
C3_QuantileDomain ==
    (debug /\ last.op = "quantile") =>
        /\ last.arg \in POutside <=> (last.out = "halt" /\ halted)
        /\ last.arg \in PInside <=> (last.out = "ret" /\ ~halted)

\* C3: a debug build has returned from quantile(1.0).
C3_Witness ==
    debug /\ last.op = "quantile" /\ last.arg = One /\ last.out = "ret"

\* C4: in a debug build cdf and pdf halt when x is outside the support:
\* Frechet needs x > loc, Weibull x < loc, GEV 1 + shape*(x - loc)/scale > 0,
\* the boundary itself being refused; Gumbel cdf and pdf never halt.
C4_SupportChecked ==
    (debug /\ last.op \in {"cdf", "pdf"}) =>
        /\ last.self.kind = "Gumbel" => (last.out = "ret" /\ ~halted)
        /\ OutsideSupport(last.self, last.arg) => (last.out = "halt" /\ halted)

\* C4: a debug build has halted in a Frechet cdf or pdf called at x = loc.
C4_Witness ==
    /\ debug /\ last.op \in {"cdf", "pdf"} /\ last.self.kind = "Frechet"
    /\ last.arg = last.self.loc /\ halted

\* C5: in a debug build every instance an operation is invoked on has
\* scale > 0 and, for Frechet and Weibull, shape > 0, however it was obtained.
C5_ParamsAlwaysValid ==
    (debug /\ last.op \in Calls) => ParamsValid(last.self)

\* a value within floating-point tolerance of p: p itself, or 0 for the
\* p = exp(-e^KMax) below 1e-60
Close(v, p) == v = p \/ (v = Zero /\ p = PGrid(KMax))

\* C6: for valid parameters and p strictly between 0 and 1, quantile(p) lies
\* in the support, so that cdf accepts it, and cdf(quantile(p)) gives p back.
C6_RoundTrip ==
    [][ ( /\ last.op = "quantile" /\ last.out = "ret"
          /\ last.arg \in POpen /\ ParamsValid(last.self)
          /\ last'.op = "cdf" /\ last'.self = last.self
          /\ last'.arg = last.val )
        => (last'.out = "ret" /\ Close(last'.val, last.arg)) ]_vars

\* two calls of the same operation with the same argument on the same instance
\* agree
PairAgree ==
    ( /\ ref.op \in {"cdf", "pdf", "quantile"} /\ last.op = ref.op
      /\ last.self = ref.self /\ last.arg = ref.arg )
    => (last.out = ref.out /\ last.val = ref.val)

Violates(c) ==
    \/ c.op = "new" /\ ~ParamsValid(c.self)
    \/ c.op = "quantile" /\ c.arg \in POutside
    \/ c.op \in {"cdf", "pdf"} /\ OutsideSupport(c.self, c.arg)

\* C8: a release build makes no check: no call halts, every call returns a
\* value and new returns the instance whatever the parameters; in a debug
\* build the same violation halts and returns nothing.
C8_ReleaseUnchecked ==
    /\ ~debug =>
          /\ ~halted /\ last.out # "halt"
          /\ last.op \in Calls => last.val # None
          /\ last.op = "new" => inst = last.self
    /\ (debug /\ Violates(last)) =>
          (halted /\ last.out = "halt" /\ last.val = None)

\* C8: a release build has returned from a call that breaks a requirement.
C8_Witness ==
    /\ ~debug /\ last.op \in {"cdf", "pdf", "quantile"} /\ Violates(last)
    /\ last.out = "ret" /\ ~halted

\* the Gumbel distribution with the location and scale of a GEV
AsGumbel(self) == [kind |-> "Gumbel", loc |-> self.loc, scale |-> self.scale]

\* C9: a GEV with shape 0.0 and scale > 0 behaves as the Gumbel distribution
\* of the same loc and scale: cdf and pdf for every x and quantile for every
\* p in [0, 1] give the same outcome.
C9_GevZeroIsGumbel ==
    ( /\ last.op \in {"cdf", "pdf", "quantile"}
      /\ last.self.kind = "GEV" /\ last.self.shape = Zero
      /\ Positive(last.self.scale)
      /\ last.arg # NaN
      /\ last.op = "quantile" => last.arg \in PInside )
    => LET g == AsGumbel(last.self)
           r == CASE last.op = "cdf" -> Gumbel_cdf(g, last.arg)
                  [] last.op = "pdf" -> Gumbel_pdf(g, last.arg)
                  [] last.op = "quantile" -> Gumbel_quantile(g, last.arg)
       IN  last.out = r.out /\ last.val = r.val

\* C10: random never fails a domain check: its uniform draw lies in [0, 1]
\* and it returns what quantile returns for that draw.
C10_RandomInDomain ==
    last.op = "random" =>
        /\ last.u \in PInside
        /\ last.out = "ret" /\ ~halted
        /\ last.val = quantile(last.self, last.u).val

\* C10: a debug build has returned from a random call whose draw was 0.
C10_Witness ==
    debug /\ last.op = "random" /\ last.u = Zero /\ last.out = "ret"

====
